---- MODULE Spec2Model ----
(***************************************************************************)
(* Model of the OpenFlexure timelapse controller (openflexure-example.py): *)
(* the App object's fields, the Tk widgets' state/command bindings, the Tk *)
(* timer queue (root.after / root.after_cancel), the LED and the camera    *)
(* preview hardware, and one action per event handler.                     *)
(*                                                                         *)
(* Units: time in whole seconds, LED levels in hundredths (0.33 -> 33).    *)
(* Strings are sequences of one-character strings so that the parser can   *)
(* be modelled character by character.                                     *)
(***************************************************************************)
EXTENDS Integers, Sequences, FiniteSets, TLC

\* ------------------------------------------------------------------ bounds
\* The wall clock is followed up to MaxTime seconds after construction.
MaxTime == 3
\* A photo acquisition blocks the event loop for 0..MaxLatency seconds.
MaxLatency == 1

\* ------------------------------------------------------- program constants
\* DEFAULT_LED_BRIGHTNESS = 0.33, in hundredths.
DEFAULT_LED_BRIGHTNESS == 33
\* Python's None as returned by parse_time_value (a value that is no count
\* of seconds), and as the initial value of self.folder.
None == -1
\* self.after_id = None: no timer handle stored. Tk handles are the
\* non-empty strings "after#N", modelled as the positive integers.
NoId == 0

\* ---------------------------------------------------------- TimeSpec parser
Digits == <<"0", "1", "2", "3", "4", "5", "6", "7", "8", "9">>
IsDigit(c) == \E i \in 1..10 : Digits[i] = c
DigitVal(c) == (CHOOSE i \in 1..10 : Digits[i] = c) - 1
IsSpace(c) == c = " "

\* Mutant: the pattern compiled without re.IGNORECASE.
Lower_Exact(c) == c

\* re.IGNORECASE: the unit letters match in either case.
Lower(c) ==
    CASE c = "D" -> "d"
      [] c = "H" -> "h"
      [] c = "M" -> "m"
      [] c = "S" -> "s"
      [] OTHER -> c

\* The four optional groups of the pattern, in their fixed order, and the
\* seconds each unit is worth.
UnitLetter == <<"d", "h", "m", "s">>
UnitSeconds == <<86400, 3600, 60, 1>>

\* str.strip(): drop leading and trailing whitespace.
RECURSIVE LStrip(_)
LStrip(s) == IF s # <<>> /\ IsSpace(Head(s)) THEN LStrip(Tail(s)) ELSE s
RECURSIVE RStrip(_)
RStrip(s) ==
    IF s # <<>> /\ IsSpace(s[Len(s)]) THEN RStrip(SubSeq(s, 1, Len(s) - 1)) ELSE s
Strip(s) == RStrip(LStrip(s))

\* \s* from position i: the first position at or after i holding no space.
RECURSIVE SkipSpace(_, _)
SkipSpace(s, i) == IF i <= Len(s) /\ IsSpace(s[i]) THEN SkipSpace(s, i + 1) ELSE i

\* \d+ from position i: the first position at or after i holding no digit.
RECURSIVE DigitsEnd(_, _)
DigitsEnd(s, i) == IF i <= Len(s) /\ IsDigit(s[i]) THEN DigitsEnd(s, i + 1) ELSE i

\* int() of the digit run s[i..j-1].
RECURSIVE ToInt(_, _, _)
ToInt(s, i, j) ==
    IF j <= i THEN 0 ELSE ToInt(s, i, j - 1) * 10 + DigitVal(s[j - 1])

\* One optional group (?:(\d+)\s*<letter k>)? tried at position i: whether it
\* matches, the integer of its digits, and the position after it.
Component(s, i, k) ==
    LET j == DigitsEnd(s, i)
        l == SkipSpace(s, j)
    IN  IF j > i /\ l <= Len(s) /\ Lower(s[l]) = UnitLetter[k]
        THEN [ok |-> TRUE, val |-> ToInt(s, i, j), next |-> l + 1]
        ELSE [ok |-> FALSE, val |-> 0, next |-> i]

\* The groups k..4 followed by \s*$, from position pos: the seconds they
\* add up to, or None when the rest of the string does not match.
\* Mutant: the pattern without its final $, so that a matching prefix is
\* enough.
AtEnd_Prefix(s, pos) == TRUE

\* The final $ of the pattern at position pos.
AtEnd(s, pos) == pos > Len(s)

RECURSIVE MatchGroups(_, _, _)
MatchGroups(s, pos, k) ==
    IF k > 4
    THEN IF AtEnd(s, pos) THEN 0 ELSE None
    ELSE LET c == Component(s, pos, k)
             rest == MatchGroups(s, SkipSpace(s, c.next), k + 1)
         IN  IF rest = None THEN None ELSE c.val * UnitSeconds[k] + rest

parse_time_value(time_str) ==
    LET s == Strip(time_str) IN MatchGroups(s, SkipSpace(s, 1), 1)

\* ------------------------------------------------------------------ inputs
T_30m == <<"3", "0", "m">>
T_5s == <<"5", "s">>
T_empty == <<>>
T_30m_1h == <<"3", "0", "m", " ", "1", "h">>
T_10x == <<"1", "0", "x">>
T_1s == <<"1", "s">>
T_2s == <<"2", "S">>
T_3s == <<" ", "3", " ", "s">>

\* Texts the user types into the duration and the frequency field.
DurationTexts == {T_30m, T_empty, T_30m_1h, T_3s}
FreqTexts == {T_5s, T_10x, T_1s, T_2s}
\* Positions of the LED slider (0.0 .. 1.0).
Levels == {0, DEFAULT_LED_BRIGHTNESS, 100}

\* ------------------------------------------------------------------- state
Widgets == {"motor_btns", "change_inc_btn", "exp_scale", "led_scale",
            "preview_btn", "duration_entry", "freq_entry", "start_btn"}

VARIABLES
    led_brightness,     \* self.led_brightness
    cc_led,             \* self.sb.illumination.cc_led as last written
    previewing,         \* self.previewing
    cam_preview,        \* whether the camera's preview window is running
    timelapse_running,  \* self.timelapse_running
    after_id,           \* self.after_id
    folder,             \* self.folder (the start timestamp) or None
    end_time,           \* self.end_time (None until first assigned)
    duration_entry,     \* text of self.duration_entry
    freq_entry,         \* text of self.freq_entry
    widget_state,       \* Tk state option of each widget
    start_cmd,          \* command bound to self.start_btn
    start_text,         \* label of self.start_btn
    preview_text,       \* label of self.preview_btn
    timers,             \* Tk's pending after() callbacks: [id, due, freq]
    now,                \* datetime.datetime.now()
    capture_times,      \* times of the take_photo calls of the latest session
    photo_led,          \* LED level seen by take_photo in the latest handler
                        \* (None when that handler took no photo)
    last_op,            \* the latest handler run and how it ended
    window,             \* the Tk root window: "open" or "destroyed"
    sb_open,            \* whether the Sangaboard device is open
    parse_in,           \* the argument of a call of parse_time_value
    parse_out,          \* <<what that call returned>>, <<>> before the call
    parse_want          \* what the grammar of the docstring gives parse_in:
                        \* its total of seconds, or None when it is malformed

vars == <<led_brightness, cc_led, previewing, cam_preview, timelapse_running,
          after_id, folder, end_time, duration_entry, freq_entry, widget_state,
          start_cmd, start_text, preview_text, timers, now,
          capture_times, photo_led, last_op, window, sb_open, parse_in,
          parse_out, parse_want>>

hw == <<cc_led, cam_preview>>
preview_vars == <<previewing, preview_text>>
session_vars == <<timelapse_running, after_id, folder, end_time, timers>>
entry_vars == <<duration_entry, freq_entry>>
control_vars == <<widget_state, start_cmd, start_text>>
shutdown_vars == <<window, sb_open>>
parse_vars == <<parse_in, parse_out, parse_want>>

START_LABEL == "Confirm settings and start timelapse"
STOP_LABEL == "Stop and end timelapse early"

InitApp ==
    /\ led_brightness = DEFAULT_LED_BRIGHTNESS
    /\ cc_led = 0
    /\ previewing = FALSE
    /\ cam_preview = FALSE
    /\ timelapse_running = FALSE
    /\ after_id = NoId
    /\ folder = None
    /\ end_time = None
    /\ duration_entry = T_30m
    /\ freq_entry = T_5s
    /\ widget_state = [w \in Widgets |-> "normal"]
    /\ start_cmd = "start_timelapse"
    /\ start_text = START_LABEL
    /\ preview_text = "Show camera preview"
    /\ timers = {}
    /\ now = 0
    /\ capture_times = {}
    /\ photo_led = None
    /\ last_op = <<"init", "", "">>
    /\ window = "open"
    /\ sb_open = TRUE

\* The state after construction; parse_time_value has not been called.
Init ==
    /\ InitApp
    /\ parse_in = T_30m
    /\ parse_out = <<>>
    /\ parse_want = 30 * UnitSeconds[3]

\* root.mainloop() dispatches events until the root window is destroyed.
Alive == window = "open"

\* ------------------------------------------------------------ Tk timer queue
TimerIds(T) == {t.id : t \in T}
\* root.after returns a handle that names no pending callback and differs from
\* the handle the program still stores.
FreshId(T) ==
    CHOOSE i \in 1..(Cardinality(T) + 2) : i \notin TimerIds(T) \cup {after_id}
\* root.after_cancel(id): the callback with that handle, if pending, is dropped.
AfterCancel(T, id) == {t \in T : t.id # id}

\* --------------------------------------------------------------- handlers
\* last_op is <<handler, result, note>>: "ui" for the slider, the preview
\* button and the entries; "start" with result "invalid" (the error dialog
\* was shown), "mkdir_failed", or the result of the first tick, and note
\* "preview_off" when lines 464-470 ran; "tick" with result "ok",
\* "display_failed", "raised" or "finished" (the Done dialog was shown);
\* "stop" (the Stopped dialog was shown) with result what became of
\* root.after_cancel: "none" (not called), "armed" (called on a pending
\* handle), "unarmed" (called on a handle that is not pending).

\* Mutant: update_led writes the LED whether or not a preview is active.
WriteLedOnUpdate_Always(val) == val

\* App.update_led: the slider stores the brightness and writes it to the LED
\* only while previewing.
WriteLedOnUpdate(val) == IF previewing THEN val ELSE cc_led

UpdateLed(val) ==
    /\ Alive
    /\ widget_state["led_scale"] = "normal"
    /\ UNCHANGED <<shutdown_vars, parse_vars>>
    /\ led_brightness' = val
    /\ cc_led' = WriteLedOnUpdate(val)
    /\ last_op' = <<"ui", "", "">>
    /\ photo_led' = None
    /\ UNCHANGED <<cam_preview, preview_vars, session_vars, entry_vars,
                   control_vars, now, capture_times>>

\* App.toggle_external_preview; hw_ok is whether the camera call returned
\* rather than raised (the exception is swallowed).
ToggleExternalPreview(hw_ok) ==
    /\ Alive
    /\ widget_state["preview_btn"] = "normal"
    /\ UNCHANGED <<shutdown_vars, parse_vars>>
    /\ IF ~previewing
       THEN /\ cc_led' = led_brightness
            /\ cam_preview' = IF hw_ok THEN TRUE ELSE cam_preview
            /\ previewing' = TRUE
            /\ preview_text' = "Stop preview"
       ELSE /\ cam_preview' = IF hw_ok THEN FALSE ELSE cam_preview
            /\ cc_led' = 0
            /\ previewing' = FALSE
            /\ preview_text' = "Show camera preview"
    /\ last_op' = <<"ui", "", "">>
    /\ photo_led' = None
    /\ UNCHANGED <<led_brightness, session_vars, entry_vars, control_vars,
                   now, capture_times>>

\* The user types into the duration / frequency Entry (possible only while the
\* Entry is in state normal).
EditDuration(txt) ==
    /\ Alive
    /\ widget_state["duration_entry"] = "normal"
    /\ UNCHANGED <<shutdown_vars, parse_vars>>
    /\ duration_entry' = txt
    /\ last_op' = <<"ui", "", "">>
    /\ photo_led' = None
    /\ UNCHANGED <<led_brightness, hw, preview_vars, session_vars, freq_entry,
                   control_vars, now, capture_times>>

EditFreq(txt) ==
    /\ Alive
    /\ widget_state["freq_entry"] = "normal"
    /\ UNCHANGED <<shutdown_vars, parse_vars>>
    /\ freq_entry' = txt
    /\ last_op' = <<"ui", "", "">>
    /\ photo_led' = None
    /\ UNCHANGED <<led_brightness, hw, preview_vars, session_vars, duration_entry,
                   control_vars, now, capture_times>>

\* Mutant: reset_controls without line 524 leaves the preview button as it was.
ResetWidgets_NoPreview ==
    [w \in Widgets |-> IF w = "preview_btn" THEN widget_state[w] ELSE "normal"]
\* App.reset_controls, as the values it leaves in the widgets and the flag.
ResetWidgets == [w \in Widgets |-> "normal"]
\* Mutant: reset_controls without line 532 leaves the flag as it was.
ResetRunning_Stale == timelapse_running
ResetRunning == FALSE

ResetControls ==
    /\ widget_state' = ResetWidgets
    /\ start_text' = START_LABEL
    /\ start_cmd' = "start_timelapse"
    /\ timelapse_running' = ResetRunning

\* App.finish_timelapse: the Done dialog, then reset_controls.
FinishTimelapse == ResetControls

\* The LED level capture_loop leaves behind after take_photo returned (line
\* 545) or raised (line 545 is not reached).
LedAfterPhoto(returned) == IF returned THEN 0 ELSE led_brightness

\* Whether capture_loop re-arms itself: line 556 is reached unless take_photo
\* raised; an error while loading the thumbnail is swallowed.
\* Mutant: a failure to display the thumbnail ends the tick like a failed photo.
Rearms_OnlyOk(outcome) == outcome = "ok"

\* Mutant: capture_loop never re-arms itself.
Rearms_Never(outcome) == FALSE

Rearms(outcome) == outcome # "raised"

\* Mutant: the deadline test with > in place of >=.
DeadlineReached_Strict(t, endT) == t > endT
\* The deadline test of capture_loop (line 536).
DeadlineReached(t, endT) == t >= endT

\* Mutant: the re-entry is armed one second short of the interval.
RearmDelay_Short(freq) == freq - 1

\* The delay of the re-entry armed at line 556, in seconds.
RearmDelay(freq) == freq

\* App.capture_loop(freq), entered with the widgets, the start button binding,
\* the running flag, the timer queue and the LED level its caller leaves
\* (ws, cmd, txt, run, T, led), as the first tick of a session (op = "start")
\* or from the timer (op = "tick"). The photo acquisition takes c seconds, c
\* in L, and ends as outcome: "ok", "display_failed" (the photo was taken, showing the
\* thumbnail failed) or "raised" (take_photo raised).
CaptureLoop(freq, endT, ws, cmd, txt, run, T, led, op, note, L) ==
    IF DeadlineReached(now, endT)
    THEN /\ FinishTimelapse
         /\ cc_led' = led
         /\ timers' = T
         /\ capture_times' = IF op = "start" THEN {} ELSE capture_times
         /\ last_op' = <<op, "finished", note>>
         /\ photo_led' = None
         /\ UNCHANGED <<after_id, now>>
    ELSE \E c \in L, outcome \in {"ok", "display_failed", "raised"} :
         /\ now + c <= MaxTime
         /\ photo_led' = led_brightness
         /\ now' = now + c
         /\ cc_led' = LedAfterPhoto(outcome # "raised")
         /\ capture_times' = (IF op = "start" THEN {} ELSE capture_times) \cup {now}
         /\ IF Rearms(outcome)
            THEN LET id == FreshId(T)
                 IN  /\ after_id' = id
                     /\ timers' = T \cup {[id |-> id,
                                           due |-> now + c + RearmDelay(freq),
                                           freq |-> freq]}
            ELSE /\ after_id' = after_id
                 /\ timers' = T
         /\ widget_state' = ws
         /\ start_cmd' = cmd
         /\ start_text' = txt
         /\ timelapse_running' = run
         /\ last_op' = <<op, outcome, note>>

\* Mutant: the validator looks at the duration only.
Invalid_DurationOnly(duration, frequency) ==
    duration = None \/ duration = 0 \/ duration <= 0

\* Mutant: the validator rejects a failed parse but accepts 0.
Invalid_NoneOnly(duration, frequency) ==
    duration = None \/ frequency = None

\* The start-request validator (line 474): None and 0 are falsy.
Invalid(duration, frequency) ==
    \/ duration = None \/ duration = 0 \/ duration <= 0
    \/ frequency = None \/ frequency = 0 \/ frequency <= 0

\* Lines 463-470: an active preview is switched off before anything else.
\* Mutant: start_timelapse leaves an active preview alone.
PreviewOffFirst_Never == FALSE

PreviewOffFirst == previewing

\* App.start_timelapse; stop_ok and mkdir_ok are whether cam.stop_preview and
\* os.makedirs returned rather than raised, L the latencies of the first photo.
StartTimelapse(stop_ok, mkdir_ok, L) ==
    LET off == PreviewOffFirst
        led1 == IF off THEN 0 ELSE cc_led
        duration == parse_time_value(duration_entry)
        frequency == parse_time_value(freq_entry)
        disabled == [w \in Widgets |-> "disabled"]
        note == IF off THEN "preview_off" ELSE ""
    IN  /\ cam_preview' = IF off /\ stop_ok THEN FALSE ELSE cam_preview
        /\ previewing' = IF off THEN FALSE ELSE previewing
        /\ preview_text' = IF off THEN "Show camera preview" ELSE preview_text
        /\ UNCHANGED <<led_brightness, entry_vars>>
        /\ IF Invalid(duration, frequency)
           THEN /\ cc_led' = led1
                /\ last_op' = <<"start", "invalid", note>>
                /\ photo_led' = None
                /\ UNCHANGED <<session_vars, control_vars, now, capture_times>>
           ELSE IF ~mkdir_ok
           THEN /\ widget_state' = disabled
                /\ folder' = now
                /\ cc_led' = led1
                /\ last_op' = <<"start", "mkdir_failed", note>>
                /\ photo_led' = None
                /\ UNCHANGED <<timelapse_running, after_id, end_time, timers,
                               start_cmd, start_text, now, capture_times>>
           ELSE /\ folder' = now
                /\ end_time' = now + duration
                /\ CaptureLoop(frequency, now + duration,
                               [disabled EXCEPT !["start_btn"] = "normal"],
                               "stop_timelapse", STOP_LABEL, TRUE, timers, led1,
                               "start", note, L)

\* Mutant: stop_timelapse cancels nothing.
CancelTarget_None == NoId

\* The handle stop_timelapse hands to root.after_cancel (lines 505-506), NoId
\* when it calls no after_cancel.
CancelTarget == after_id

\* App.stop_timelapse: after_cancel, the Stopped dialog, then reset_controls.
StopTimelapse ==
    /\ timers' = IF CancelTarget # NoId THEN AfterCancel(timers, CancelTarget)
                 ELSE timers
    /\ last_op' = <<"stop", IF CancelTarget = NoId THEN "none"
                            ELSE IF CancelTarget \in TimerIds(timers) THEN "armed"
                            ELSE "unarmed", "">>
    /\ ResetControls
    /\ photo_led' = None
    /\ UNCHANGED <<led_brightness, hw, preview_vars, after_id, folder, end_time,
                   entry_vars, now, capture_times, shutdown_vars, parse_vars>>

\* ---------------------------------------------------------------- events
\* A click on self.start_btn runs the command currently bound to it.
StartClickable ==
    /\ widget_state["start_btn"] = "normal"
    /\ start_cmd = "start_timelapse"

ClickStart(L) ==
    /\ Alive
    /\ StartClickable
    /\ UNCHANGED <<shutdown_vars, parse_vars>>
    /\ \E stop_ok \in BOOLEAN, mkdir_ok \in BOOLEAN :
           StartTimelapse(stop_ok, mkdir_ok, L)

PressStart == ClickStart(0..MaxLatency)

PressStop ==
    /\ Alive
    /\ widget_state["start_btn"] = "normal"
    /\ start_cmd = "stop_timelapse"
    /\ StopTimelapse

MoveSlider == \E val \in Levels : UpdateLed(val)
PressPreview == \E hw_ok \in BOOLEAN : ToggleExternalPreview(hw_ok)
TypeDuration == \E txt \in DurationTexts : EditDuration(txt)
TypeFreq == \E txt \in FreqTexts : EditFreq(txt)

\* Tk runs a pending after() callback once its delay has elapsed: the
\* re-entry into capture_loop armed at line 556.
TimerCallback(L, late) ==
    \E t \in timers :
        /\ Alive
        /\ IF late THEN now >= t.due ELSE now = t.due
        /\ UNCHANGED <<shutdown_vars, parse_vars>>
        /\ UNCHANGED <<led_brightness, cam_preview, preview_vars, folder, end_time,
                       entry_vars>>
        /\ CaptureLoop(t.freq, end_time, widget_state, start_cmd, start_text,
                       timelapse_running, timers \ {t}, cc_led, "tick", "", L)

TimerFires == TimerCallback(0..MaxLatency, TRUE)

\* The wall clock advances.
AdvanceTime ==
    /\ now < MaxTime
    /\ now' = now + 1
    /\ UNCHANGED <<led_brightness, hw, preview_vars, session_vars, entry_vars,
                   control_vars, capture_times, photo_led, last_op,
                   shutdown_vars, parse_vars>>

Next ==
    \/ MoveSlider
    \/ PressPreview
    \/ TypeDuration
    \/ TypeFreq
    \/ PressStart
    \/ PressStop
    \/ TimerFires
    \/ AdvanceTime

Spec == Init /\ [][Next]_vars

\* The ideal schedule: photo acquisitions take no time, every timer fires at
\* the very second it is due, and nobody presses stop.
PressStartExact == ClickStart({0})
TimerFiresExact == TimerCallback({0}, FALSE)
AdvanceTimeExact == (\A t \in timers : now < t.due) /\ AdvanceTime

NextExact ==
    \/ MoveSlider
    \/ PressPreview
    \/ TypeDuration
    \/ TypeFreq
    \/ PressStartExact
    \/ TimerFiresExact
    \/ AdvanceTimeExact

SpecExact == Init /\ [][NextExact]_vars

\* stop_timelapse called while no session is running (no widget is bound to
\* it then: a direct call of the method).
CallStop == Alive /\ ~timelapse_running /\ StopTimelapse

NextCall == Next \/ CallStop

SpecCall == Init /\ [][NextCall]_vars

\* Mutant: an exception in cleanup propagates out of the handler.
CleanupProceeds_Abort(ok) == ok

\* Whether cleanup goes on to its next statement after one that returned (ok)
\* or raised: both try blocks (lines 560-563, 564-567) end in "except
\* Exception: pass".
CleanupProceeds(ok) == TRUE

\* App.cleanup, bound to WM_DELETE_WINDOW at line 230; led_ok and close_ok are
\* whether the LED write and sb.close returned rather than raised.  last_op
\* records <<"cleanup", result of the LED write, result of the close>>.
Cleanup(led_ok, close_ok) ==
    LET to_close == CleanupProceeds(led_ok)
        to_destroy == to_close /\ CleanupProceeds(close_ok)
    IN  /\ cc_led' = IF led_ok THEN 0 ELSE cc_led
        /\ sb_open' = IF to_close /\ close_ok THEN FALSE ELSE sb_open
        /\ window' = IF to_destroy THEN "destroyed" ELSE window
        /\ last_op' = <<"cleanup",
                        IF led_ok THEN "ok" ELSE "raised",
                        IF ~to_close THEN "skipped"
                        ELSE IF close_ok THEN "ok" ELSE "raised">>
        /\ photo_led' = None
        /\ UNCHANGED <<led_brightness, cam_preview, preview_vars, session_vars,
                       entry_vars, control_vars, now, capture_times, parse_vars>>

\* The user closes the window.
CloseWindow ==
    /\ Alive
    /\ \E led_ok \in BOOLEAN, close_ok \in BOOLEAN : Cleanup(led_ok, close_ok)

\* The ideal schedule, with the window closed at any moment.
NextClose == NextExact \/ CloseWindow

SpecClose == Init /\ [][NextClose]_vars

\* Every photo acquisition returns (take_photo does not raise), timers fire
\* at the second they are due, and the user may press stop.
PressStartLive == PressStartExact /\ last_op'[2] # "raised"
TimerFiresLive == TimerFiresExact /\ last_op'[2] # "raised"

NextLive ==
    \/ MoveSlider
    \/ PressPreview
    \/ TypeDuration
    \/ TypeFreq
    \/ PressStartLive
    \/ PressStop
    \/ TimerFiresLive
    \/ AdvanceTimeExact

\* Tk's event loop runs every after() callback that has come due, and the
\* wall clock keeps advancing (up to the modelled horizon MaxTime).
SpecLive ==
    /\ Init
    /\ [][NextLive]_vars
    /\ WF_vars(TimerFiresLive)
    /\ WF_vars(AdvanceTimeExact)

\* ------------------------------------------------- calls of the parser
\* Arguments of parse_time_value, each with the value the grammar of its
\* docstring ("strings like '1d 2h 30m 5s'") gives it.  The texts are built
\* from component counts, not by the parser.
UpperLetter == <<"D", "H", "M", "S">>

\* Decimal digits of n.
RECURSIVE ToDigits(_)
ToDigits(n) ==
    IF n < 10 THEN <<Digits[n + 1]>>
    ELSE ToDigits(n \div 10) \o <<Digits[(n % 10) + 1]>>

Spaces(n) == [i \in 1..n |-> " "]

\* The component <n><letter of unit u>.
CompText(n, u, upper) ==
    ToDigits(n) \o <<IF upper THEN UpperLetter[u] ELSE UnitLetter[u]>>

\* Counts a component may carry; None marks an absent component.
Counts == {0, 1, 2, 5, 10, 30}
\* Which unit letters are typed in upper case.
CaseStyles == {{}, {1, 3}, {1, 2, 3, 4}}

\* A well-formed text: for each unit d, h, m, s a count or None, each present
\* component followed by sep spaces, the whole preceded by lead spaces.
RECURSIVE RenderValid(_, _, _, _)
RenderValid(cnt, upper, sep, k) ==
    IF k > 4 THEN <<>>
    ELSE (IF cnt[k] = None THEN <<>>
          ELSE CompText(cnt[k], k, k \in upper) \o Spaces(sep))
         \o RenderValid(cnt, upper, sep, k + 1)

RECURSIVE TotalSeconds(_, _)
TotalSeconds(cnt, k) ==
    IF k > 4 THEN 0
    ELSE (IF cnt[k] = None THEN 0 ELSE cnt[k] * (<<86400, 3600, 60, 1>>)[k])
         + TotalSeconds(cnt, k + 1)

ValidCases ==
    {[text |-> Spaces(lead) \o RenderValid(cnt, upper, sep, 1),
      want |-> TotalSeconds(cnt, 1)] :
        cnt \in [1..4 -> Counts \cup {None}], upper \in CaseStyles,
        sep \in 0..1, lead \in 0..1}

\* Components in any order: a sequence of <<count, unit>> pairs.
RECURSIVE RenderSeq(_, _)
RenderSeq(toks, sep) ==
    IF toks = <<>> THEN <<>>
    ELSE CompText(Head(toks)[1], Head(toks)[2], FALSE) \o Spaces(sep)
         \o RenderSeq(Tail(toks), sep)

CompToks == {1, 10} \X (1..4)
\* Two or three components of which some unit does not come strictly after
\* the one before it: out of order, or repeated.
Misordered ==
    {q \in (CompToks \X CompToks) \cup (CompToks \X CompToks \X CompToks) :
        \E i \in 1..(Len(q) - 1) : q[i + 1][2] <= q[i][2]}

\* Tokens that are no component: an unknown unit, a sign, a decimal point, a
\* unit letter without digits.
Garbage == {<<"x">>, <<"-">>, <<".">>, <<"s">>, <<"d">>}

\* A well-formed text with a garbage token before its component at unit p
\* (p = 5: after the last component).
RECURSIVE RenderGarbled(_, _, _, _, _)
RenderGarbled(cnt, g, p, sep, k) ==
    (IF k = p THEN g \o Spaces(sep) ELSE <<>>)
    \o (IF k > 4 THEN <<>>
        ELSE (IF cnt[k] = None THEN <<>>
              ELSE CompText(cnt[k], k, FALSE) \o Spaces(sep))
             \o RenderGarbled(cnt, g, p, sep, k + 1))

MalformedCases ==
    {[text |-> RenderSeq(q, sep), want |-> None] :
        q \in Misordered, sep \in 0..1}
    \cup
    {[text |-> RenderGarbled(cnt, g, p, sep, 1), want |-> None] :
        cnt \in [1..4 -> {None, 10}], g \in Garbage, p \in 1..5, sep \in 0..1}
    \cup
    \* a number without a unit after a well-formed text
    {[text |-> RenderValid(cnt, {}, sep, 1) \o ToDigits(n), want |-> None] :
        cnt \in [1..4 -> {None, 10}], sep \in 0..1, n \in {5, 10}}
    \cup
    {[text |-> T_30m_1h, want |-> None], [text |-> T_10x, want |-> None]}

ParseCases == ValidCases \cup MalformedCases

InitParse ==
    /\ InitApp
    /\ \E c \in ParseCases : parse_in = c.text /\ parse_want = c.want
    /\ parse_out = <<>>

\* One call of parse_time_value.
ParseStep ==
    /\ parse_out = <<>>
    /\ parse_out' = <<parse_time_value(parse_in)>>
    /\ UNCHANGED <<led_brightness, hw, preview_vars, session_vars, entry_vars,
                   control_vars, now, capture_times, photo_led, last_op,
                   shutdown_vars, parse_in, parse_want>>

SpecParse == InitParse /\ [][ParseStep]_vars

\* ------------------------------------------------------------- properties
\* Control surface Idle: no preview active and no timelapse running.
Idle == ~previewing /\ ~timelapse_running

\* The latest handler took a photo (the first tick of a start, or a tick).
TookPhoto == last_op[2] \in {"ok", "display_failed", "raised"}

\* C1: whenever no preview is active and no timelapse is running, the LED
\* level last written to the hardware is 0.0.
C1_IdleLedOff == Idle => cc_led = 0

\* C2: a tick that captures has the LED at the configured brightness during
\* the photo acquisition and at 0.0 when the tick ends, whether the
\* acquisition returned or raised.
C2_LedRestoredAfterCapture ==
    TookPhoto => photo_led = led_brightness /\ cc_led = 0

\* C3: when the photo acquisition of a tick fails before end_time, the next
\* tick is still armed: the handle stored by the program names a pending timer.
C3_FailureKeepsSchedule ==
    (last_op[2] = "raised" /\ now < end_time) =>
        \E t \in timers : t.id = after_id

\* C4: at most one session is ever Running: while timelapse_running is true no
\* start request can be executed (the start button, the only widget that runs
\* start_timelapse, is bound to stop).
C4_SingleSession ==
    timelapse_running => ~StartClickable /\ start_cmd = "stop_timelapse"

\* C4 witness: a session is Running after a tick from the timer.
C4_Witness == timelapse_running /\ last_op = <<"tick", "ok", "">>

\* C5: after a stop request has been processed no tick is pending, the session
\* is not running and the LED is 0.0.
C5_StopEndsSession ==
    last_op[1] = "stop" => timers = {} /\ ~timelapse_running /\ cc_led = 0

\* C6: no capture is initiated at or after end_time, and a tick that finds the
\* deadline reached completes the session: no photo, not running, no timer.
C6_NoCaptureAfterDeadline ==
    /\ \A t \in capture_times : t < end_time
    /\ (last_op[1] = "tick" /\ last_op[2] = "finished") =>
           /\ now >= end_time
           /\ photo_led = None
           /\ ~timelapse_running
           /\ timers = {}

\* C6 witness: a session has completed after at least two captures.
C6_Witness ==
    /\ last_op = <<"tick", "finished", "">>
    /\ Cardinality(capture_times) >= 2

\* The capture times of a session started at second start with duration D and
\* interval I, as far as second upto: start, start + I, start + 2I, ... below
\* start + D.
ScheduledCaptures(start, D, I, upto) ==
    {start + k * I : k \in {j \in 0..(upto - start) : j * I < D /\ start + j * I <= upto}}

CeilDiv(a, b) == (a + b - 1) \div b

\* C7: under the ideal schedule a session with duration D and interval I has
\* captured, at every moment, exactly at the seconds 0, I, 2I, ... after its
\* start that have come, and completes after exactly ceil(D/I) captures, at or
\* after D.
C7_ExactSchedule ==
    LET D == parse_time_value(duration_entry)
        I == parse_time_value(freq_entry)
    IN  /\ (timelapse_running /\ \A t \in timers : t.due > now) =>
               capture_times = ScheduledCaptures(folder, D, I, now)
        /\ (last_op[1] = "tick" /\ last_op[2] = "finished") =>
               /\ capture_times = ScheduledCaptures(folder, D, I, now)
               /\ Cardinality(capture_times) = CeilDiv(D, I)
               /\ now >= folder + D

\* A text whose parse is a failure or 0.
Unusable(txt) == parse_time_value(txt) = None \/ parse_time_value(txt) = 0

\* C8: a session is Running only if both texts parse to a value > 0, and a
\* start request with an unusable duration or interval leaves no session
\* running, takes no photo and arms no timer.
C8_StartNeedsValidTimes ==
    /\ timelapse_running =>
           parse_time_value(duration_entry) > 0 /\ parse_time_value(freq_entry) > 0
    /\ (last_op[1] = "start" /\ (Unusable(duration_entry) \/ Unusable(freq_entry))) =>
           /\ last_op[2] = "invalid"
           /\ ~timelapse_running
           /\ photo_led = None
           /\ timers = {}

\* C8 witness: a start request was rejected for the interval "10x".
C8_Witness ==
    /\ last_op[1] = "start" /\ last_op[2] = "invalid"
    /\ freq_entry = T_10x
    /\ parse_time_value(duration_entry) > 0

\* A click on the start button with an invalid duration or interval.
InvalidStart ==
    /\ last_op'[1] = "start"
    /\ Unusable(duration_entry) \/ Unusable(freq_entry)
    /\ PressStart

\* C9 as stated: a start request with an invalid duration or interval changes
\* neither the preview flag, the LED level, the preview hardware, the widgets,
\* the session folder, the running flag nor the timer handle.
C9_InvalidStartNoSideEffects ==
    [][InvalidStart =>
          UNCHANGED <<previewing, cc_led, cam_preview, widget_state, start_cmd,
                      start_text, folder, timelapse_running, after_id>>]_vars

\* C9 amended: a start request with an invalid duration or interval starts
\* nothing (widgets, start button binding, folder, end_time, running flag,
\* timer handle, timers, stored brightness and the texts are unchanged); its
\* only side effect is that an active preview is switched off first: flag
\* cleared, button label reset, LED written 0, and the preview hardware is
\* stopped unless stop_preview raised. With no preview active nothing changes.
C9_InvalidStartOnlyStopsPreview ==
    [][InvalidStart =>
          /\ UNCHANGED <<widget_state, start_cmd, start_text, folder, end_time,
                         timelapse_running, after_id, timers, led_brightness,
                         duration_entry, freq_entry, now, capture_times>>
          /\ previewing' = FALSE
          /\ IF previewing
             THEN /\ cc_led' = 0
                  /\ cam_preview' \in {FALSE, cam_preview}
                  /\ preview_text' = "Show camera preview"
             ELSE UNCHANGED <<cc_led, cam_preview, preview_text>>]_vars

\* C9 witness: an invalid start request was issued while a preview was active.
C9_Witness == last_op = <<"start", "invalid", "preview_off">>

\* C10: stop_timelapse called while no session is running changes neither the
\* running flag, the LED level, the widgets nor the start button's label and
\* command, and calls after_cancel on no handle that is not pending.
C10_StopIdempotent ==
    [][CallStop =>
          /\ UNCHANGED <<timelapse_running, cc_led, widget_state, start_text,
                         start_cmd>>
          /\ last_op'[2] # "unarmed"]_vars

\* C11: while a session is Running every control but the start button is
\* disabled and the start button, enabled, acts as stop-early; after a session
\* has Completed or been Cancelled every control is enabled again and the
\* start button has its original label and action.
C11_ControlsTrackSession ==
    /\ timelapse_running =>
           /\ \A w \in Widgets \ {"start_btn"} : widget_state[w] = "disabled"
           /\ widget_state["start_btn"] = "normal"
           /\ start_cmd = "stop_timelapse"
           /\ start_text = STOP_LABEL
    /\ (last_op[1] = "stop" \/ (last_op[1] = "tick" /\ last_op[2] = "finished")) =>
           /\ ~timelapse_running
           /\ \A w \in Widgets : widget_state[w] = "normal"
           /\ start_cmd = "start_timelapse"
           /\ start_text = START_LABEL

\* C11 witness: a Running session was stopped early with its timer pending.
C11_Witness == last_op = <<"stop", "armed", "">> /\ capture_times # {}

\* A start request issued while a preview is active.
StartWhilePreviewing == previewing /\ last_op'[1] = "start" /\ PressStart

\* C12: previewing and timelapse_running are never both true, and a start
\* request issued while a preview is active clears the preview flag, never
\* leaves the preview hardware running when cam.stop_preview returned, and has
\* the LED at 0.0 even when validation or the folder creation then ends the
\* request (so the preview was switched off before them).
C12_PreviewTimelapseExclusive ==
    /\ [](~(previewing /\ timelapse_running))
    /\ [][StartWhilePreviewing =>
              /\ ~previewing'
              /\ preview_text' = "Show camera preview"
              /\ last_op'[3] = "preview_off"
              /\ (cam_preview' => cam_preview)
              /\ (\E mo \in BOOLEAN : StartTimelapse(TRUE, mo, 0..MaxLatency))
                     => ~cam_preview'
              /\ last_op'[2] \in {"invalid", "mkdir_failed", "ok", "display_failed"}
                     => cc_led' = 0]_vars

\* C12 witness: a session started from an active preview is Running with the
\* preview off.
C12_Witness ==
    /\ last_op[1] = "start"
    /\ last_op[3] = "preview_off"
    /\ timelapse_running
    /\ ~previewing
    /\ ~cam_preview

\* The start of the latest capture.
LastCapture == CHOOSE t \in capture_times : \A u \in capture_times : u <= t

\* C13: after a tick whose thumbnail could not be loaded or rendered the LED
\* is 0.0, the session is still Running and exactly one next tick is armed as
\* after a successful tick: under the stored handle, one interval after the
\* photo acquisition ended.
C13_DisplayFailureSwallowed ==
    last_op[2] = "display_failed" =>
        /\ cc_led = 0
        /\ photo_led = led_brightness
        /\ timelapse_running
        /\ Cardinality(timers) = 1
        /\ \E t \in timers :
               /\ t.id = after_id
               /\ t.freq = parse_time_value(freq_entry)
               /\ t.due - t.freq \in LastCapture .. (LastCapture + MaxLatency)
               /\ t.due - t.freq <= now

\* C13 witness: a tick from the timer whose thumbnail display failed.
C13_Witness == last_op = <<"tick", "display_failed", "">>

\* C14: the window can be closed in every state in which it is open, and a
\* cleanup always attempts the close of the device and destroys the window,
\* whether or not the LED write or the close raised; a step that returned has
\* had its effect (LED 0.0, device closed).
C14_ShutdownProceeds ==
    /\ Alive => ENABLED CloseWindow
    /\ last_op[1] = "cleanup" =>
           /\ window = "destroyed"
           /\ last_op[3] # "skipped"
           /\ last_op[2] = "ok" => cc_led = 0
           /\ last_op[3] = "ok" => ~sb_open

\* C14 witness: the window is destroyed although both the LED write and the
\* close failed, during a Running session.
C14_Witness ==
    /\ last_op = <<"cleanup", "raised", "raised">>
    /\ timelapse_running
    /\ window = "destroyed"

\* C15: for every text made of optional components <d>d, <h>h, <m>m, <s>s in
\* that order, in any letter case and with optional whitespace between them,
\* parse_time_value returns d*86400 + h*3600 + m*60 + s.
C15_ParserValue ==
    (parse_out # <<>> /\ parse_want # None) => parse_out = <<parse_want>>

\* C15 witness: "1h 30m 10s" has been parsed to 5410.
C15_Witness ==
    /\ parse_in = <<"1", "h", " ", "3", "0", "m", " ", "1", "0", "s", " ">>
    /\ parse_out = <<5410>>

\* C16: for every text that does not match the grammar as a whole (components
\* out of order or repeated, an out-of-grammar token, trailing garbage)
\* parse_time_value returns None, never the value of a matching prefix.
C16_ParserRejectsMalformed ==
    (parse_out # <<>> /\ parse_want = None) => parse_out = <<None>>

\* C16 witness: "30m 1h" has been parsed to None.
C16_Witness == parse_in = T_30m_1h /\ parse_out = <<None>>

\* A Running session whose last tick, the one that finds the deadline reached,
\* is due within the modelled horizon.
RunningWithinHorizon ==
    /\ timelapse_running
    /\ folder + CeilDiv(end_time - folder, parse_time_value(freq_entry))
                     * parse_time_value(freq_entry) <= MaxTime

\* Session state Completed: the deadline tick has run.
Completed ==
    /\ last_op[1] = "tick" /\ last_op[2] = "finished"
    /\ ~timelapse_running
    /\ \A w \in Widgets : widget_state[w] = "normal"
    /\ start_cmd = "start_timelapse"

\* C17: when every photo acquisition returns, time advances and armed timers
\* fire, a Running session leads to Completed (not running, controls
\* re-enabled) unless stop is pressed; a session that is not running has no
\* timer pending, and the running flag is set again only by a start request.
C17_SessionTerminates ==
    /\ RunningWithinHorizon ~> (Completed \/ last_op[1] = "stop")
    /\ [](~timelapse_running => timers = {})
    /\ [][(~timelapse_running /\ timelapse_running') =>
              /\ last_op'[1] = "start"
              /\ StartClickable
              /\ folder' = now]_vars

\* C17 witness: a session has completed after three captures.
C17_Witness == Completed /\ Cardinality(capture_times) = 3

C19_LatencyNotCompensated ==
    /\ [][/\ \A t \in timers' \ timers :
                 /\ now \in capture_times'
                 /\ t.due = now' + parse_time_value(freq_entry)
          /\ (last_op'[1] = "tick" /\ capture_times' # capture_times) =>
                 \E t \in timers \ timers' :
                     /\ now >= t.due
                     /\ t.due >= LastCapture + parse_time_value(freq_entry)]_vars
    /\ []((timelapse_running \/ last_op[2] = "finished") =>
              /\ \A a, b \in capture_times :
                     a < b => b - a >= parse_time_value(freq_entry)
              /\ Cardinality(capture_times)
                     <= CeilDiv(end_time - folder, parse_time_value(freq_entry)))

\* C19 witness: the first capture of a session took MaxLatency seconds and the
\* next tick is due one interval after its end.
C19_Witness ==
    /\ last_op[1] = "start" /\ last_op[2] = "ok"
    /\ now = folder + MaxLatency
    /\ \E t \in timers : t.due = folder + MaxLatency + parse_time_value(freq_entry)

\* C20: update_led run while no preview is active changes nothing but the
\* stored led_brightness (the LED level, the preview flag, the running flag
\* and the timer stay as they are), while during a preview it writes the new
\* level to the LED; the stored level is what the next preview start writes
\* and what the next capture is lit with.
C20_SliderWritesOnlyInPreview ==
    /\ [][(last_op'[1] = "ui" /\ MoveSlider) =>
              IF previewing
              THEN cc_led' = led_brightness'
              ELSE UNCHANGED <<cc_led, cam_preview, previewing,
                               timelapse_running, after_id, timers>>]_vars
    /\ [][(~previewing /\ previewing') => cc_led' = led_brightness]_vars
    /\ [](TookPhoto => photo_led = led_brightness)

\* C20 witness: the slider stands at full brightness, no preview is active and
\* the LED is off.
C20_Witness ==
    /\ last_op[1] = "ui"
    /\ ~previewing
    /\ led_brightness = 100
    /\ cc_led = 0

\* C21: in every reachable state the start/stop button is enabled and bound
\* to stop_timelapse while a session is running and to start_timelapse
\* otherwise, also after a start request whose folder creation failed and
\* after a tick whose photo acquisition raised.
C21_NeverLockedOut ==
    /\ widget_state["start_btn"] = "normal"
    /\ start_cmd = IF timelapse_running THEN "stop_timelapse"
                   ELSE "start_timelapse"
    /\ start_text = IF timelapse_running THEN STOP_LABEL ELSE START_LABEL

====
